---- MODULE Spec2Model ----
(***************************************************************************)
(* Outbox relay of jessewashburn/consulting-crm-analytics:                 *)
(* events/tasks.py (poll_event_outbox, process_event, replay_failed_event) *)
(* over the tables of events/models.py.                                    *)
(*                                                                         *)
(* The database runs in Django's autocommit mode: every statement outside  *)
(* transaction.atomic() is its own transaction; inside atomic() the writes *)
(* are held back until the block exits and row locks are kept until then   *)
(* (PostgreSQL READ COMMITTED).  The processor runs on one calendar day, so *)
(* the date part of the metric keys it writes is fixed; outbox rows may    *)
(* have been created the day before.                                       *)
(***************************************************************************)
EXTENDS Integers, Sequences, FiniteSets, Bags, TLC

\* ------------------------------------------------------------ constants
MAX_RETRIES == 3

RETRY_BACKOFF_SECONDS == <<60, 300, 900>>

\* ------------------------------------------------------------ bounds
\* settings.EVENT_BATCH_SIZE
BatchSize == 2

\* exceptions the environment raises inside the transactional body
MaxFaults == 7

\* failed publishes to the queue
MaxPublishFailures == 1

\* operator replays
MaxReplays == 1

Rows == {1, 2, 3}

Workers == {"w1", "w2"}

Pollers == {"p1", "p2"}

EventIds == {"e1", "e2"}

\* ------------------------------------------------------------ events
\* event_outbox rows: rows 1 and 2 carry the same event_id (duplicate insert
\* upstream), row 3 another one; created_at grows with the row number.
EventOfRow(r) == IF r <= 2 THEN "e1" ELSE "e2"

\* payload values as JSON delivers them: a number, a string that reads as a
\* number, any other string, null
Num(n) == [tag |-> "num", n |-> n]

NumStr(n) == [tag |-> "numstr", n |-> n]

Str == [tag |-> "str", n |-> 0]

Null == [tag |-> "null", n |-> 0]

NoPayload == [f \in {} |-> Null]

\* the events the model draws from
EventKinds ==
    {"lead_won", "lead_bad", "lead_lost", "lead_contacted", "lead_qualified",
     "lead_default", "lead_null", "lead_deleted", "account", "activity",
     "contact", "project", "project_zero", "project_no_account",
     "project_no_value"}

LeadKinds ==
    {"lead_won", "lead_bad", "lead_lost", "lead_contacted", "lead_qualified",
     "lead_default", "lead_null", "lead_deleted"}

ProjectKinds == {"project", "project_zero", "project_no_account", "project_no_value"}

KindAggregateType(k) ==
    IF k \in LeadKinds THEN "leads"
    ELSE IF k \in ProjectKinds THEN "projects"
    ELSE IF k = "account" THEN "accounts"
    ELSE IF k = "activity" THEN "activities"
    ELSE "contacts"

KindEventType(k) ==
    IF k \in {"lead_won", "lead_default", "lead_null"} THEN "INSERT_LEADS"
    ELSE IF k = "lead_deleted" THEN "DELETE_LEADS"
    ELSE IF k \in LeadKinds THEN "UPDATE_LEADS"
    ELSE IF k \in ProjectKinds THEN "INSERT_PROJECTS"
    ELSE IF k = "account" THEN "INSERT_ACCOUNTS"
    ELSE IF k = "activity" THEN "INSERT_ACTIVITIES"
    ELSE "INSERT_CONTACTS"

KindPayload(k) ==
    CASE k = "lead_won"       -> [lead_status |-> "won", estimated_value |-> Num(5)]
      [] k = "lead_bad"       -> [lead_status |-> "new", estimated_value |-> Str]
      [] k = "lead_lost"      -> [lead_status |-> "lost", estimated_value |-> NumStr(3)]
      [] k = "lead_contacted" -> [lead_status |-> "contacted",
                                  estimated_value |-> Num(2)]
      [] k = "lead_qualified" -> [lead_status |-> "qualified"]
      [] k = "lead_default"   -> [estimated_value |-> Num(4)]
      [] k = "lead_null"      -> [lead_status |-> "null", estimated_value |-> Null]
      [] k = "lead_deleted"   -> [lead_status |-> "won", estimated_value |-> Num(5)]
      [] k = "project"        -> [account_id |-> "a1", contract_value |-> Num(7)]
      [] k = "project_zero"   -> [account_id |-> "a1", contract_value |-> Num(0)]
      [] k = "project_no_account" -> [contract_value |-> Num(7)]
      [] k = "project_no_value"   -> [account_id |-> "a1"]
      [] k = "activity"       -> [activity_type |-> "call"]
      [] OTHER                -> NoPayload

\* EventCount natural key (date, event_type, aggregate_type), date fixed
Keys == {<<KindEventType(k), KindAggregateType(k)>> : k \in EventKinds}

\* 'INSERT' in event_type or 'UPDATE' in event_type
InsertOrUpdateShaped(t) ==
    t \in {"INSERT_LEADS", "UPDATE_LEADS", "INSERT_ACCOUNTS", "UPDATE_ACCOUNTS",
           "INSERT_PROJECTS", "UPDATE_PROJECTS", "INSERT_ACTIVITIES",
           "UPDATE_ACTIVITIES", "INSERT_CONTACTS"}

VARIABLES
    kind,           \* what the event of each event_id is
    sqsConfigured,  \* settings.SQS_QUEUE_URL is set
    s3Configured,   \* settings.S3_BUCKET_NAME is set
    outbox,         \* event_outbox rows
    poller,         \* running poll_event_outbox invocations
    sqs,            \* messages sent to the downstream queue, per outbox row
    queue,          \* Celery broker: pending process_event messages (a bag)
    worker,         \* running process_event invocations
    eventCount,     \* EventCount.count per key (0: no row or count 0)
    leadExists,     \* today's LeadFunnelMetric row exists
    lead,           \* today's LeadFunnelMetric row
    revExists,      \* this month's RevenueMetric row of the account exists
    revenue,        \* this month's RevenueMetric row of the account
    processed,      \* ProcessedEvent rows per event_id
    failed,         \* FailedEvent rows, indexed by surrogate id
    alerts,         \* _send_failure_alert calls per event_id
    faults,         \* exceptions raised so far by the environment
    pubFailures,    \* failed publishes so far
    replays,        \* replays run so far
    archive,        \* the archive object of an event_id exists in the bucket
    replayRet,      \* what the last replay_failed_event returned
    yesterday       \* the EventCount and LeadFunnelMetric rows of the day before

vars == <<kind, sqsConfigured, s3Configured, outbox, poller, sqs, queue, worker,
          eventCount, leadExists, lead, revExists, revenue, processed, failed,
          alerts, faults, pubFailures, replays, archive, replayRet, yesterday>>

tables == <<eventCount, leadExists, lead, revExists, revenue, processed, failed>>

EventTypeOf(e) == KindEventType(kind[e])

AggregateTypeOf(e) == KindAggregateType(kind[e])

PayloadOf(e) == KindPayload(kind[e])

KeyOf(e) == <<EventTypeOf(e), AggregateTypeOf(e)>>

\* ------------------------------------------------------------ initial state
NoRow == [present |-> FALSE, created_on |-> "today", processed_at |-> FALSE,
          published_at |-> FALSE, retry_count |-> 0, last_error |-> FALSE]


IdlePoller == [pc |-> "idle", events |-> <<>>, ret |-> -1]

NoMsg == [event_id |-> "none", retry_count |-> 0, retries |-> 0, countdown |-> 0]

ZeroLead == [new_leads |-> 0, contacted_leads |-> 0, qualified_leads |-> 0,
             won_leads |-> 0, lost_leads |-> 0, total_estimated_value |-> 0,
             won_value |-> 0, lost_value |-> 0]

ZeroRevenue == [contracted_value |-> 0, projects_count |-> 0]

\* no EventCount and no LeadFunnelMetric row of a date
NoMetrics == [eventCount |-> [k \in Keys |-> 0], leadExists |-> FALSE,
              lead |-> ZeroLead]

IdleWorker == [pc |-> "idle", msg |-> NoMsg, ecLock |-> FALSE, leadLock |-> FALSE,
               revLock |-> FALSE, metric |-> ZeroLead, archiveFailed |-> FALSE,
               result |-> "none"]

\* e1 is a won lead worth 5; the estimated_value of e2 is no number
DuplicateLead == [e \in EventIds |-> IF e = "e1" THEN "lead_won" ELSE "lead_bad"]

\* nothing in the broker, the ledger and the bucket, nothing running, no
\* metric row dated the day before; with or without a queue
Stopped ==
    /\ sqsConfigured \in BOOLEAN
    /\ poller = [p \in Pollers |-> IdlePoller]
    /\ sqs = [r \in Rows |-> 0]
    /\ queue = EmptyBag
    /\ worker = [w \in Workers |-> IdleWorker]
    /\ processed = [e \in EventIds |-> 0]
    /\ failed = <<>>
    /\ alerts = [e \in EventIds |-> 0]
    /\ faults = 0
    /\ pubFailures = 0
    /\ replays = 0
    /\ archive = [e \in EventIds |-> FALSE]
    /\ replayRet = "none"
    /\ yesterday = NoMetrics

\* nothing in the outbox either
Quiet ==
    /\ Stopped
    /\ outbox = [r \in Rows |-> NoRow]

\* no metric row yet today
Empty ==
    /\ Quiet
    /\ kind = DuplicateLead
    /\ eventCount = [k \in Keys |-> 0]
    /\ leadExists = FALSE
    /\ lead = ZeroLead
    /\ revExists = FALSE
    /\ revenue = ZeroRevenue

\* a deployment without an archive bucket
Init == Empty /\ s3Configured = FALSE

\* a deployment with an archive bucket
InitArchive == Empty /\ s3Configured = TRUE

\* today's LeadFunnelMetric row after one earlier INSERT_LEADS event without a
\* lead_status (new lead worth 4)
SeedLead ==
    [ZeroLead EXCEPT !.new_leads = 1, !.total_estimated_value = 4]

\* a RevenueMetric row entered for the account this month before
SeedRevenue == [contracted_value |-> 10, projects_count |-> 1]

\* the metric rows at the start: absent, or left by earlier work of the day
Metrics(leadThere, revThere) ==
    /\ leadExists = leadThere
    /\ lead = IF leadThere THEN SeedLead ELSE ZeroLead
    /\ eventCount = [k \in Keys |->
                       IF leadThere /\ k = <<"INSERT_LEADS", "leads">>
                       THEN 1 ELSE 0]
    /\ revExists = revThere
    /\ revenue = IF revThere THEN SeedRevenue ELSE ZeroRevenue

\* one event of any kind, with or without the metric rows it touches
InitHandlers ==
    /\ Quiet
    /\ s3Configured = FALSE
    /\ \E k \in EventKinds : kind = [DuplicateLead EXCEPT !["e1"] = k]
    /\ \E leadThere \in BOOLEAN, revThere \in BOOLEAN :
          Metrics(leadThere, revThere)

\* the second event_id of a pair of leads events that are no duplicates
SecondLeadKinds == {"lead_lost", "lead_contacted", "lead_default"}

\* two distinct leads events on a day that has its LeadFunnelMetric row
InitLeads ==
    /\ Quiet
    /\ s3Configured = FALSE
    /\ \E k \in SecondLeadKinds :
          kind = [e \in EventIds |-> IF e = "e1" THEN "lead_won" ELSE k]
    /\ Metrics(TRUE, FALSE)

\* kinds of events with the EventCount key (today, INSERT_LEADS, leads) or
\* (today, INSERT_ACCOUNTS, accounts)
SameKeyKinds == {"lead_won", "lead_default", "account"}

\* two distinct event_ids with the same EventCount key, no metric row yet
InitCounts ==
    /\ Quiet
    /\ s3Configured = FALSE
    /\ \E k1 \in SameKeyKinds, k2 \in SameKeyKinds :
          /\ KindEventType(k1) = KindEventType(k2)
          /\ KindAggregateType(k1) = KindAggregateType(k2)
          /\ kind = [e \in EventIds |-> IF e = "e1" THEN k1 ELSE k2]
    /\ Metrics(FALSE, FALSE)

\* the events the backfill is run over: a won lead, a lead with a null status,
\* a lead whose estimated_value is no number, an account
BackfillKinds == {"lead_won", "lead_null", "lead_bad", "account"}

\* rows created before midnight that no poll has fetched yet
MaxYesterdayRows == 2

\* the processor and the pollers start the day with up to MaxYesterdayRows
\* rows of the day before in the outbox and no metric row
InitBackfill ==
    /\ Stopped
    /\ s3Configured = FALSE
    /\ \E n \in 0..MaxYesterdayRows :
          outbox = [r \in Rows |->
                      IF r <= n
                      THEN [NoRow EXCEPT !.present = TRUE,
                                         !.created_on = "yesterday"]
                      ELSE NoRow]
    /\ \E k \in BackfillKinds : kind = [DuplicateLead EXCEPT !["e1"] = k]
    /\ Metrics(FALSE, FALSE)

\* ------------------------------------------------------------ producer
\* An upstream producer (or create_test_event) inserts the next outbox row of R.
InsertRow(R) ==
    /\ \E r \in R :
          /\ ~outbox[r].present
          /\ \A x \in R : x < r => outbox[x].present
          /\ outbox' = [outbox EXCEPT ![r] = [NoRow EXCEPT !.present = TRUE]]
    /\ UNCHANGED <<kind, yesterday, sqsConfigured, revExists, revenue, s3Configured, archive, replayRet, poller, sqs, queue, worker, eventCount, leadExists,
                   lead, processed, failed, alerts, faults, pubFailures, replays>>

\* ------------------------------------------------------------ poller
\* poll_event_outbox runs on a bare connection.cursor(): no transaction is open,
\* so the SELECT ... FOR UPDATE SKIP LOCKED is a transaction of its own and the
\* row locks it takes are gone when the statement returns.
RowsLockedBy(p) == {}

\* ORDER BY created_at ASC alone
BeforeCreated(ob, a, b) == a < b

\* line 44: ORDER BY retry_count ASC, created_at ASC
Before(ob, a, b) ==
    \/ ob[a].retry_count < ob[b].retry_count
    \/ ob[a].retry_count = ob[b].retry_count /\ a < b

RECURSIVE FirstRows(_, _, _)
FirstRows(ob, S, n) ==
    IF S = {} \/ n = 0 THEN <<>>
    ELSE LET m == CHOOSE x \in S : \A y \in S \ {x} : Before(ob, x, y)
         IN  <<[id |-> m, retry_count |-> ob[m].retry_count]>>
                 \o FirstRows(ob, S \ {m}, n - 1)

\* only rows no publish has failed for
ClaimableFresh(ob, r) ==
    ob[r].present /\ ~ob[r].processed_at /\ ob[r].retry_count = 0

\* line 43: WHERE processed_at IS NULL
Claimable(ob, r) == ob[r].present /\ ~ob[r].processed_at

\* lines 39-47: ... LIMIT batch_size FOR UPDATE SKIP LOCKED
SelectBatch(p) ==
    LET locked == UNION {RowsLockedBy(q) : q \in Pollers \ {p}}
        S == {r \in Rows : Claimable(outbox, r) /\ r \notin locked}
    IN  FirstRows(outbox, S, BatchSize)

BatchIds(events) == {events[i].id : i \in 1..Len(events)}

\* the poll goes on with an empty batch
EarlyReturnNever(events) == FALSE

\* line 51: if not events
EarlyReturn(events) == events = <<>>

\* lines 37-55: the SELECT, and the early return when nothing matches
PollSelect(p) ==
    /\ poller[p].pc = "idle"
    /\ LET events == SelectBatch(p)
       IN  poller' = [poller EXCEPT ![p] =
               IF EarlyReturn(events) THEN [pc |-> "idle", events |-> <<>>, ret |-> 0]
               ELSE [pc |-> IF sqsConfigured THEN "publish" ELSE "mark",
                     events |-> events, ret |-> -1]]
    /\ UNCHANGED <<kind, yesterday, sqsConfigured, revExists, revenue, s3Configured, archive, replayRet, outbox, sqs, queue, worker, eventCount,
                   leadExists, lead, processed, failed, alerts, faults, pubFailures,
                   replays>>

\* lines 58-83: every row of the batch is sent to the queue
PollPublish(p) ==
    /\ poller[p].pc = "publish"
    /\ sqs' = [r \in Rows |->
                 IF r \in BatchIds(poller[p].events) THEN sqs[r] + 1 ELSE sqs[r]]
    /\ poller' = [poller EXCEPT ![p].pc = "mark"]
    /\ UNCHANGED <<kind, yesterday, sqsConfigured, revExists, revenue, s3Configured, archive, replayRet, outbox, queue, worker, eventCount,
                   leadExists, lead, processed, failed, alerts, faults, pubFailures,
                   replays>>

\* lines 84-93: UPDATE ... SET retry_count = retry_count + 1, last_error = ...
BumpRetry(ob, ids) ==
    [r \in Rows |-> IF r \in ids
                    THEN [ob[r] EXCEPT !.retry_count = @ + 1, !.last_error = TRUE]
                    ELSE ob[r]]

\* lines 59-94: the client or the k+1-th send_message raises; the first k rows
\* are already sent
PollPublishFail(p) ==
    /\ poller[p].pc = "publish"
    /\ pubFailures < MaxPublishFailures
    /\ \E k \in 0..(Len(poller[p].events) - 1) :
          sqs' = [r \in Rows |->
                    IF \E i \in 1..k : poller[p].events[i].id = r
                    THEN sqs[r] + 1 ELSE sqs[r]]
    /\ outbox' = BumpRetry(outbox, BatchIds(poller[p].events))
    /\ poller' = [poller EXCEPT ![p] = [pc |-> "idle", events |-> <<>>, ret |-> 0]]
    /\ pubFailures' = pubFailures + 1
    /\ UNCHANGED <<kind, yesterday, sqsConfigured, revExists, revenue, s3Configured, archive, replayRet, queue, worker, eventCount, leadExists,
                   lead, processed, failed, alerts, faults, replays>>

\* lines 96-102: UPDATE ... SET processed_at = NOW(), published_at = NOW()
MarkProcessed(ob, ids) ==
    [r \in Rows |-> IF r \in ids
                    THEN [ob[r] EXCEPT !.processed_at = TRUE, !.published_at = TRUE]
                    ELSE ob[r]]

PollMark(p) ==
    /\ poller[p].pc = "mark"
    /\ outbox' = MarkProcessed(outbox, BatchIds(poller[p].events))
    /\ poller' = [poller EXCEPT ![p].pc = "dispatch"]
    /\ UNCHANGED <<kind, yesterday, sqsConfigured, revExists, revenue, s3Configured, archive, replayRet, sqs, queue, worker, eventCount,
                   leadExists, lead, processed, failed, alerts, faults, pubFailures,
                   replays>>

\* process_event.delay(..., retry_count=retry_count) of one fetched row
DelayMsg(ev) ==
    [event_id |-> EventOfRow(ev.id), retry_count |-> ev.retry_count,
     retries |-> 0, countdown |-> 0]

\* only the first fetched row is handed over
DelayFirst(q, events) ==
    IF events = <<>> THEN q ELSE q (+) SetToBag({DelayMsg(Head(events))})

RECURSIVE DelayAll(_, _)
DelayAll(q, events) ==
    IF events = <<>> THEN q
    ELSE DelayAll(q (+) SetToBag({DelayMsg(Head(events))}), Tail(events))

\* lines 104-120: one process_event.delay per fetched row, return len(events)
PollDispatch(p) ==
    /\ poller[p].pc = "dispatch"
    /\ queue' = DelayAll(queue, poller[p].events)
    /\ poller' = [poller EXCEPT ![p] =
                     [pc |-> "idle", events |-> <<>>, ret |-> Len(poller[p].events)]]
    /\ UNCHANGED <<kind, yesterday, sqsConfigured, revExists, revenue, s3Configured, archive, replayRet, outbox, sqs, worker, eventCount,
                   leadExists, lead, processed, failed, alerts, faults, pubFailures,
                   replays>>

\* the first n of the fetched rows are handed over
RECURSIVE DelaySome(_, _, _)
DelaySome(q, events, n) ==
    IF events = <<>> \/ n = 0 THEN q
    ELSE DelaySome(q (+) SetToBag({DelayMsg(Head(events))}), Tail(events), n - 1)

\* lines 105-116: the broker refuses the k+1-th process_event.delay (or the
\* worker running the poll is stopped there); the exception ends the task, the
\* UPDATE of lines 98-102 is committed already
PollDispatchFail(p) ==
    /\ poller[p].pc = "dispatch"
    /\ \E k \in 0..(Len(poller[p].events) - 1) :
          queue' = DelaySome(queue, poller[p].events, k)
    /\ poller' = [poller EXCEPT ![p] = IdlePoller]
    /\ UNCHANGED <<kind, yesterday, sqsConfigured, revExists, revenue, s3Configured, archive, replayRet, outbox, sqs, worker, eventCount,
                   leadExists, lead, processed, failed, alerts, faults, pubFailures,
                   replays>>

\* ------------------------------------------------------------ processor
Get(payload, field, default) ==
    IF field \in DOMAIN payload THEN payload[field] ELSE default

\* x or 0: None and the number 0 are falsy
OrZero(v) ==
    IF v.tag = "null" \/ (v.tag = "num" /\ v.n = 0) THEN Num(0) ELSE v

\* Decimal(...) raises InvalidOperation for a string that is no number
DecimalRaises(v) == v.tag = "str"

\* Decimal(...) of a number or of a string that reads as one
Decimal(v) == v.n

\* line 235: Decimal(payload.get('estimated_value') or 0)
EstimatedValue(payload) == Decimal(OrZero(Get(payload, "estimated_value", Null)))

EstimatedRaises(payload) ==
    DecimalRaises(OrZero(Get(payload, "estimated_value", Null)))

\* line 268: Decimal(payload.get('contract_value') or 0)
ContractValue(payload) == Decimal(OrZero(Get(payload, "contract_value", Null)))

ContractRaises(payload) ==
    DecimalRaises(OrZero(Get(payload, "contract_value", Null)))

\* line 270: if account_id and contract_value
AccountAndValue(payload) ==
    /\ Get(payload, "account_id", "") # ""
    /\ ContractValue(payload) # 0

\* lines 275-282: the UPDATE contracted_value = contracted_value + value,
\* projects_count = projects_count + 1 of an existing row
RevenueApply(row, payload) ==
    [contracted_value |-> row.contracted_value + ContractValue(payload),
     projects_count |-> row.projects_count + 1]

\* _process_lead_event, lines 239-254: the in-memory update of the fetched row
LeadApply(m, event_type, payload) ==
    LET lead_status == Get(payload, "lead_status", "new")
        estimated_value == EstimatedValue(payload)
    IN  IF ~InsertOrUpdateShaped(event_type) THEN m
        ELSE LET m1 ==
                   IF lead_status = "new" THEN [m EXCEPT !.new_leads = @ + 1]
                   ELSE IF lead_status = "contacted"
                        THEN [m EXCEPT !.contacted_leads = @ + 1]
                   ELSE IF lead_status = "qualified"
                        THEN [m EXCEPT !.qualified_leads = @ + 1]
                   ELSE IF lead_status = "won"
                        THEN [m EXCEPT !.won_leads = @ + 1,
                                       !.won_value = @ + estimated_value]
                   ELSE IF lead_status = "lost"
                        THEN [m EXCEPT !.lost_leads = @ + 1,
                                       !.lost_value = @ + estimated_value]
                   ELSE m
             IN  [m1 EXCEPT !.total_estimated_value = @ + estimated_value]

\* the row is written with the count of a new row plus one
CountSetOne(count) == 1

\* line 157: event_count.count = models.F('count') + 1, evaluated by the
\* UPDATE on the row as it is then
CountPlusOne(count) == count + 1

\* the tables as committed
Committed ==
    [eventCount |-> eventCount, leadExists |-> leadExists, lead |-> lead,
     revenue |-> revenue, processed |-> processed]

\* the tables as the open transaction of w has written them so far
Written(w) ==
    LET e == worker[w].msg.event_id
    IN  [eventCount |-> IF worker[w].ecLock
                        THEN [eventCount EXCEPT ![KeyOf(e)] = CountPlusOne(@)]
                        ELSE eventCount,
         leadExists |-> leadExists \/ worker[w].leadLock,
         lead       |-> IF worker[w].leadLock THEN worker[w].metric ELSE lead,
         revenue    |-> IF worker[w].revLock
                        THEN RevenueApply(revenue, PayloadOf(e)) ELSE revenue,
         processed  |-> processed]

\* no rollback: what was written before the exception stays
AtomicExitNoRollback(committed, written, raised) == written

\* line 145, with transaction.atomic(): leaving the block commits what was
\* written, leaving it by an exception rolls all of it back
AtomicExit(committed, written, raised) ==
    IF raised THEN committed ELSE written

SetTables(t) ==
    /\ eventCount' = t.eventCount
    /\ leadExists' = t.leadExists
    /\ lead' = t.lead
    /\ revenue' = t.revenue
    /\ processed' = t.processed

\* a worker takes a process_event message from the broker
Take(w) ==
    /\ worker[w].pc \in {"idle", "done"}
    /\ \E m \in BagToSet(queue) :
          /\ queue' = queue (-) SetToBag({m})
          /\ worker' = [worker EXCEPT ![w] = [IdleWorker EXCEPT !.pc = "check",
                                                                !.msg = m]]
    /\ UNCHANGED <<kind, yesterday, sqsConfigured, revExists, revenue, s3Configured, archive, replayRet, outbox, poller, sqs, eventCount,
                   leadExists, lead, processed, failed, alerts, faults, pubFailures,
                   replays>>

\* the check finds nothing
AlreadyProcessedNever(e) == FALSE

\* line 140: ProcessedEvent.objects.filter(event_id=event_id).exists()
AlreadyProcessed(e) == processed[e] > 0

Finished(w, result) ==
    [IdleWorker EXCEPT !.pc = "done", !.msg = worker[w].msg,
                       !.archiveFailed = worker[w].archiveFailed,
                       !.result = result]

\* lines 138-142: the idempotency check
Check(w) ==
    /\ worker[w].pc = "check"
    /\ worker' = [worker EXCEPT ![w] =
                     IF AlreadyProcessed(worker[w].msg.event_id)
                     THEN Finished(w, "skipped")
                     ELSE [worker[w] EXCEPT !.pc = "count"]]
    /\ UNCHANGED <<kind, yesterday, sqsConfigured, revExists, revenue, s3Configured, archive, replayRet, outbox, poller, sqs, queue, eventCount,
                   leadExists, lead, processed, failed, alerts, faults, pubFailures,
                   replays>>

\* line 171: if settings.S3_BUCKET_NAME, the archive call follows the handler
AfterHandler == IF s3Configured THEN "archive" ELSE "create"

\* every event goes to the leads handler
HandlerPcLeads(aggregate_type) == "lead_read"

\* lines 161-168: the handler the aggregate_type selects
HandlerPc(aggregate_type) ==
    IF aggregate_type = "leads" THEN "lead_read"
    ELSE IF aggregate_type = "projects" THEN "project"
    ELSE AfterHandler

\* lines 151-158: EventCount get_or_create, then count = F('count') + 1; the
\* UPDATE waits for the row lock of another open transaction and keeps it
Count(w) ==
    /\ worker[w].pc = "count"
    /\ \A v \in Workers \ {w} :
          ~(worker[v].ecLock
            /\ KeyOf(worker[v].msg.event_id) = KeyOf(worker[w].msg.event_id))
    /\ worker' = [worker EXCEPT ![w].ecLock = TRUE,
                     ![w].pc = HandlerPc(AggregateTypeOf(worker[w].msg.event_id))]
    /\ UNCHANGED <<kind, yesterday, sqsConfigured, revExists, revenue, s3Configured, archive, replayRet, outbox, poller, sqs, queue, eventCount,
                   leadExists, lead, processed, failed, alerts, faults, pubFailures,
                   replays>>

LeadLockFree(w) == \A v \in Workers \ {w} : ~worker[v].leadLock

\* line 237: LeadFunnelMetric.objects.get_or_create(date=today): a plain SELECT
\* of the committed row, or the INSERT of a zero row (which waits for a
\* concurrent uncommitted INSERT of the same date)
LeadRead(w) ==
    /\ worker[w].pc = "lead_read"
    /\ ~EstimatedRaises(PayloadOf(worker[w].msg.event_id))
    /\ leadExists \/ LeadLockFree(w)
    /\ worker' = [worker EXCEPT ![w] =
          [worker[w] EXCEPT
              !.metric = IF leadExists THEN lead ELSE ZeroLead,
              !.leadLock = ~leadExists,
              !.pc = IF InsertOrUpdateShaped(EventTypeOf(worker[w].msg.event_id))
                     THEN "lead_write" ELSE AfterHandler]]
    /\ UNCHANGED <<kind, yesterday, sqsConfigured, revExists, revenue, s3Configured, archive, replayRet, outbox, poller, sqs, queue, eventCount,
                   leadExists, lead, processed, failed, alerts, faults, pubFailures,
                   replays>>

\* lines 239-255: the counters are changed in memory and metric.save() writes
\* every field of the row; the UPDATE waits for the row lock
LeadWrite(w) ==
    /\ worker[w].pc = "lead_write"
    /\ LeadLockFree(w)
    /\ worker' = [worker EXCEPT ![w] =
          [worker[w] EXCEPT
              !.metric = LeadApply(worker[w].metric,
                                   EventTypeOf(worker[w].msg.event_id),
                                   PayloadOf(worker[w].msg.event_id)),
              !.leadLock = TRUE,
              !.pc = AfterHandler]]
    /\ UNCHANGED <<kind, yesterday, sqsConfigured, revExists, revenue, s3Configured, archive, replayRet, outbox, poller, sqs, queue, eventCount,
                   leadExists, lead, processed, failed, alerts, faults, pubFailures,
                   replays>>

\* the first delay of the schedule for every retry
CountdownFirst(retry_count) == RETRY_BACKOFF_SECONDS[1]

\* line 194
Countdown(retry_count) ==
    IF retry_count < Len(RETRY_BACKOFF_SECONDS)
    THEN RETRY_BACKOFF_SECONDS[retry_count + 1] ELSE 900

\* line 192
RetriesLeft(retry_count) == retry_count < MAX_RETRIES

\* FailedEvent.event_id is unique
HasFailedRow(e) == \E i \in 1..Len(failed) : failed[i].event_id = e

\* lines 185-228: the except branch, entered after the transaction rolled back
HandleFailure(w) ==
    LET m == worker[w].msg
    IN  IF RetriesLeft(m.retry_count)
        THEN \* self.retry: Celery raises the exception instead of rescheduling
             \* once request.retries has reached max_retries
             IF m.retries + 1 > MAX_RETRIES
             THEN /\ worker' = [worker EXCEPT ![w] = Finished(w, "error")]
                  /\ UNCHANGED <<queue, failed, alerts>>
             ELSE /\ queue' = queue (+) SetToBag({[event_id |-> m.event_id,
                                      retry_count |-> m.retry_count + 1,
                                      retries |-> m.retries + 1,
                                      countdown |-> Countdown(m.retry_count)]})
                  /\ worker' = [worker EXCEPT ![w] = Finished(w, "retry")]
                  /\ UNCHANGED <<failed, alerts>>
        ELSE IF HasFailedRow(m.event_id)
             THEN \* IntegrityError out of FailedEvent.objects.create
                  /\ worker' = [worker EXCEPT ![w] = Finished(w, "error")]
                  /\ UNCHANGED <<queue, failed, alerts>>
             ELSE /\ failed' = Append(failed,
                                  [event_id |-> m.event_id,
                                   retry_count |-> m.retry_count,
                                   resolved_at |-> FALSE, resolved_by |-> "none"])
                  /\ alerts' = [alerts EXCEPT ![m.event_id] = @ + 1]
                  /\ worker' = [worker EXCEPT ![w] = Finished(w, "failed")]
                  /\ UNCHANGED queue

RevLockFree(w) == \A v \in Workers \ {w} : ~worker[v].revLock

\* _process_project_event, lines 264-282: nothing without an account_id and
\* a non-zero contract_value; else update_or_create locks the row of (month,
\* account_id) with SELECT ... FOR UPDATE and saves it with the F()
\* expressions of defaults
ProjectUpsert(w) ==
    /\ worker[w].pc = "project"
    /\ ~ContractRaises(PayloadOf(worker[w].msg.event_id))
    /\ IF ~AccountAndValue(PayloadOf(worker[w].msg.event_id))
       THEN worker' = [worker EXCEPT ![w].pc = AfterHandler]
       ELSE /\ revExists
            /\ RevLockFree(w)
            /\ worker' = [worker EXCEPT ![w].revLock = TRUE,
                                        ![w].pc = AfterHandler]
    /\ UNCHANGED <<kind, yesterday, sqsConfigured, revExists, revenue, s3Configured, archive,
                   replayRet, outbox, poller, sqs, queue, eventCount, leadExists,
                   lead, processed, failed, alerts, faults, pubFailures, replays>>

\* lines 275-282 when the row of (month, account_id) is missing:
\* update_or_create passes defaults to create(), and an INSERT cannot take
\* the F() expressions (ValueError: F() expressions can only be used to
\* update, not to insert)
ProjectCreate(w) ==
    /\ worker[w].pc = "project"
    /\ ~ContractRaises(PayloadOf(worker[w].msg.event_id))
    /\ AccountAndValue(PayloadOf(worker[w].msg.event_id))
    /\ ~revExists
    /\ SetTables(AtomicExit(Committed, Written(w), TRUE))
    /\ HandleFailure(w)
    /\ UNCHANGED <<kind, yesterday, sqsConfigured, revExists, s3Configured, archive,
                   replayRet, outbox, poller, sqs, faults, pubFailures, replays>>

\* no unique constraint
UniqueViolationNever(e) == FALSE

\* ProcessedEvent.event_id is unique
UniqueViolation(e) == processed[e] > 0

\* lines 175-183: ProcessedEvent.objects.create and the exit of the atomic
\* block; the INSERT raises IntegrityError when the event_id is there already
Create(w) ==
    /\ worker[w].pc = "create"
    /\ LET e == worker[w].msg.event_id
           inserted == [Written(w) EXCEPT !.processed[e] = @ + 1]
       IN  IF UniqueViolation(e)
           THEN /\ SetTables(AtomicExit(Committed, Written(w), TRUE))
                /\ HandleFailure(w)
           ELSE /\ SetTables(AtomicExit(Committed, inserted, FALSE))
                /\ worker' = [worker EXCEPT ![w] = Finished(w, "success")]
                /\ UNCHANGED <<queue, failed, alerts>>
    /\ UNCHANGED <<kind, yesterday, sqsConfigured, revExists, s3Configured, archive, replayRet, outbox, poller, sqs, faults, pubFailures,
                   replays>>

\* a statement of the transactional body raises (database error, bad payload)
Raise(w) ==
    /\ worker[w].pc \in {"count", "lead_read", "lead_write", "project", "create"}
    /\ faults < MaxFaults
    /\ faults' = faults + 1
    /\ SetTables(AtomicExit(Committed, Written(w), TRUE))
    /\ HandleFailure(w)
    /\ UNCHANGED <<kind, yesterday, sqsConfigured, revExists, s3Configured, archive, replayRet, outbox, poller, sqs, pubFailures, replays>>

\* line 235 or line 268 raises on the payload: the handler fails before it
\* reads a row
BadPayload(w) ==
    /\ \/ /\ worker[w].pc = "lead_read"
          /\ EstimatedRaises(PayloadOf(worker[w].msg.event_id))
       \/ /\ worker[w].pc = "project"
          /\ ContractRaises(PayloadOf(worker[w].msg.event_id))
    /\ SetTables(AtomicExit(Committed, Written(w), TRUE))
    /\ HandleFailure(w)
    /\ UNCHANGED <<kind, yesterday, sqsConfigured, revExists, s3Configured, archive, replayRet, outbox, poller, sqs, faults, pubFailures,
                   replays>>

\* the exception of the archive write reaches process_event
ArchiveEscapesAlways(raised) == raised

\* _archive_to_s3, lines 296-323: the whole body is inside try / except
\* Exception: pass, so nothing the client or put_object raises leaves the call
ArchiveEscapes(raised) == FALSE

\* lines 171-172 and 297-319: put_object writes the object under the key of
\* the event_id; the transaction of the caller is still open
ArchiveOk(w) ==
    /\ worker[w].pc = "archive"
    /\ archive' = [archive EXCEPT ![worker[w].msg.event_id] = TRUE]
    /\ worker' = [worker EXCEPT ![w].pc = "create"]
    /\ UNCHANGED <<kind, yesterday, sqsConfigured, revExists, revenue, s3Configured, replayRet, outbox, poller, sqs,
                   queue, eventCount, leadExists, lead, processed, failed, alerts,
                   faults, pubFailures, replays>>

\* lines 171-172 and 320-323: the client or put_object raises
ArchiveFail(w) ==
    /\ worker[w].pc = "archive"
    /\ IF ArchiveEscapes(TRUE)
       THEN /\ SetTables(AtomicExit(Committed, Written(w), TRUE))
            /\ HandleFailure(w)
       ELSE /\ worker' = [worker EXCEPT ![w].pc = "create",
                                        ![w].archiveFailed = TRUE]
            /\ UNCHANGED <<queue, eventCount, leadExists, lead, revenue,
                           processed, failed, alerts>>
    /\ UNCHANGED <<kind, yesterday, sqsConfigured, revExists, s3Configured, archive, replayRet, outbox, poller,
                   sqs, faults, pubFailures, replays>>

\* ------------------------------------------------------------ replay
\* replay_failed_event, lines 353-381; an id past the table matches no row
\* the ledger row is left in place
ClearGuardKeeps(proc, e) == proc

\* line 359: ProcessedEvent.objects.filter(event_id=failed.event_id).delete()
ClearGuard(proc, e) == [proc EXCEPT ![e] = 0]

\* lines 362-369: process_event.delay(..., retry_count=0)
ReplayMsg(e) ==
    [event_id |-> e, retry_count |-> 0, retries |-> 0, countdown |-> 0]

\* lines 372-374
Resolve(row) == [row EXCEPT !.resolved_at = TRUE, !.resolved_by = "manual_replay"]

\* the last row stands in for a missing one
LookupLast(fid) == IF fid \in 1..Len(failed) THEN fid ELSE Len(failed)

\* lines 354 and 379: FailedEvent.objects.get(id=...); 0 is DoesNotExist
Lookup(fid) == IF fid \in 1..Len(failed) THEN fid ELSE 0

Replay(fid) ==
    /\ replays < MaxReplays
    /\ replays' = replays + 1
    /\ IF Lookup(fid) # 0
       THEN LET e == failed[Lookup(fid)].event_id
            IN  /\ processed' = ClearGuard(processed, e)
                /\ queue' = queue (+) SetToBag({ReplayMsg(e)})
                /\ failed' = [failed EXCEPT
                                 ![Lookup(fid)] = Resolve(failed[Lookup(fid)])]
                /\ replayRet' = "replayed"
       ELSE /\ UNCHANGED <<processed, queue, failed>>
            /\ replayRet' = "error"
    /\ UNCHANGED <<kind, yesterday, sqsConfigured, revExists, revenue, s3Configured, archive, outbox, poller, sqs, worker, eventCount,
                   leadExists, lead, alerts, faults, pubFailures>>

\* ------------------------------------------------------------ backfill
\* backfill_analytics.py: the script and the management command of the same
\* name.  The dates of the metric rows: the day the processor runs on and the
\* day before.
Days == {"yesterday", "today"}

\* the rows of event_outbox created on day d
RowsOn(d) == {r \in Rows : outbox[r].present /\ outbox[r].created_on = d}

\* lines 21-30: GROUP BY DATE(created_at), event_type, aggregate_type
CountGroup(d, k) == {r \in RowsOn(d) : KeyOf(EventOfRow(r)) = k}

\* lines 35-42: update_or_create(date, event_type, aggregate_type,
\* defaults={'count': count}) for every group the query returns; the rows of
\* other keys are left as they are
BackfilledCounts(counts, d) ==
    [k \in Keys |-> IF CountGroup(d, k) # {}
                    THEN Cardinality(CountGroup(d, k)) ELSE counts[k]]

\* no process_event transaction is open
NoOpenTransaction == \A w \in Workers : worker[w].pc \in {"idle", "done", "check"}

\* backfill_event_counts, lines 13-54 (Command.handle, lines 18-51)
BackfillEventCounts ==
    /\ NoOpenTransaction
    /\ eventCount' = BackfilledCounts(eventCount, "today")
    /\ yesterday' = [yesterday EXCEPT
                        !.eventCount = BackfilledCounts(@, "yesterday")]
    /\ UNCHANGED <<kind, sqsConfigured, revExists, revenue, s3Configured, archive,
                   replayRet, outbox, poller, sqs, queue, worker, leadExists,
                   lead, processed, failed, alerts, faults, pubFailures, replays>>

\* payload->>'field': the value as text, NULL for a JSON null or a missing key;
\* a number and a string with the same digits give the same text
AsText(v) == IF v.tag = "num" THEN NumStr(v.n) ELSE v

\* lines 66-73: the columns a leads row is grouped by
LeadGroupOf(r) ==
    [lead_status |-> Get(PayloadOf(EventOfRow(r)), "lead_status", "null"),
     estimated_value |-> AsText(Get(PayloadOf(EventOfRow(r)),
                                    "estimated_value", Null))]

\* line 72: WHERE aggregate_type = 'leads'
LeadRowsOn(d) == {r \in RowsOn(d) : AggregateTypeOf(EventOfRow(r)) = "leads"}

LeadGroups(d) == {LeadGroupOf(r) : r \in LeadRowsOn(d)}

\* COUNT(*) of the group
LeadCount(d, g) == Cardinality({r \in LeadRowsOn(d) : LeadGroupOf(r) = g})

\* str.lower() on the spellings of a status
Lower(s) ==
    CASE s \in {"NEW", "New"} -> "new"
      [] s \in {"CONTACTED", "Contacted"} -> "contacted"
      [] s \in {"QUALIFIED", "Qualified"} -> "qualified"
      [] s \in {"WON", "Won"} -> "won"
      [] s \in {"LOST", "Lost"} -> "lost"
      [] OTHER -> s

\* line 90: (lead_status or 'new').lower()
BackfillStatus(g) == IF g.lead_status = "null" THEN "new" ELSE Lower(g.lead_status)

\* lines 89-103: one row of the query result is added to the sums of its
\* date: lead_count to the counter of the status, the value of the group
\* once to the value sums; a text that is no number is passed over
GroupApply(m, g, lead_count) ==
    LET status == BackfillStatus(g)
        m1 == IF status = "new" THEN [m EXCEPT !.new_leads = @ + lead_count]
              ELSE IF status = "contacted"
                   THEN [m EXCEPT !.contacted_leads = @ + lead_count]
              ELSE IF status = "qualified"
                   THEN [m EXCEPT !.qualified_leads = @ + lead_count]
              ELSE IF status = "won" THEN [m EXCEPT !.won_leads = @ + lead_count]
              ELSE IF status = "lost" THEN [m EXCEPT !.lost_leads = @ + lead_count]
              ELSE m
        text == IF g.estimated_value.tag = "null" THEN NumStr(0)
                ELSE g.estimated_value
    IN  IF DecimalRaises(text) THEN m1
        ELSE LET value == Decimal(text)
                 m2 == [m1 EXCEPT !.total_estimated_value = @ + value]
             IN  IF status = "won" THEN [m2 EXCEPT !.won_value = @ + value]
                 ELSE IF status = "lost" THEN [m2 EXCEPT !.lost_value = @ + value]
                 ELSE m2

\* lines 81-103: by_date[event_date] after the loop over the groups of day d
RECURSIVE FoldGroups(_, _, _)
FoldGroups(m, d, G) ==
    IF G = {} THEN m
    ELSE LET g == CHOOSE x \in G : TRUE
         IN  FoldGroups(GroupApply(m, g, LeadCount(d, g)), d, G \ {g})

\* lines 106-119: update_or_create(date, defaults=all eight fields) for every
\* date that has leads rows
BackfilledLead(row, d) ==
    IF LeadRowsOn(d) = {} THEN row
    ELSE [row EXCEPT !.leadExists = TRUE,
                     !.lead = FoldGroups(ZeroLead, d, LeadGroups(d))]

\* backfill_lead_funnel, lines 57-125
BackfillLeadFunnel ==
    /\ NoOpenTransaction
    /\ LET t == BackfilledLead([leadExists |-> leadExists, lead |-> lead], "today")
       IN  leadExists' = t.leadExists /\ lead' = t.lead
    /\ yesterday' = BackfilledLead(yesterday, "yesterday")
    /\ UNCHANGED <<kind, sqsConfigured, revExists, revenue, s3Configured, archive,
                   replayRet, outbox, poller, sqs, queue, worker, eventCount,
                   processed, failed, alerts, faults, pubFailures, replays>>

\* ------------------------------------------------------------ specification
\* the beat schedule starts one poll every 30 s: polls that do not overlap
Beat == {"p1"}

\* rows 1 and 2, the duplicates of e1
DuplicateRows == {r \in Rows : EventOfRow(r) = "e1"}

Polling(P) ==
    \/ \E p \in P : PollSelect(p)
    \/ \E p \in P : PollPublish(p)
    \/ \E p \in P : PollPublishFail(p)
    \/ \E p \in P : PollMark(p)
    \/ \E p \in P : PollDispatch(p)

Processing ==
    \/ \E w \in Workers : Take(w)
    \/ \E w \in Workers : Check(w)
    \/ \E w \in Workers : Count(w)
    \/ \E w \in Workers : LeadRead(w)
    \/ \E w \in Workers : LeadWrite(w)
    \/ \E w \in Workers : Create(w)

\* one poller, the duplicate rows of e1, failing transactions and replay
Next ==
    \/ InsertRow(DuplicateRows)
    \/ Polling(Beat)
    \/ Processing
    \/ \E w \in Workers : Raise(w)
    \/ \E fid \in 1..(Len(failed) + 1) : Replay(fid)

Spec == Init /\ [][Next]_vars

\* overlapping polls of several poller instances; no transaction fails
NextPollers ==
    \/ InsertRow(DuplicateRows)
    \/ Polling(Pollers)
    \/ Processing

SpecPollers == Init /\ [][NextPollers]_vars

Archiving ==
    \/ \E w \in Workers : ArchiveOk(w)
    \/ \E w \in Workers : ArchiveFail(w)

\* an archive bucket is configured; one poller, the duplicate rows of e1,
\* failing transactions
NextArchive ==
    \/ InsertRow(DuplicateRows)
    \/ Polling(Beat)
    \/ Processing
    \/ Archiving
    \/ \E w \in Workers : Raise(w)

SpecArchive == InitArchive /\ [][NextArchive]_vars

\* the handlers that take more than the leads of e1: projects, bad payloads
Handling ==
    \/ \E w \in Workers : ProjectUpsert(w)
    \/ \E w \in Workers : ProjectCreate(w)
    \/ \E w \in Workers : BadPayload(w)

\* the first outbox row alone
SingleRow == {1}

\* one event of any kind goes through a poll and the processor
NextHandlers ==
    \/ InsertRow(SingleRow)
    \/ Polling(Beat)
    \/ Processing
    \/ Handling

SpecHandlers == InitHandlers /\ [][NextHandlers]_vars

\* rows 1 and 3: one row per event_id
DistinctRows == {r \in Rows : r = 1 \/ EventOfRow(r) # "e1"}

\* two distinct leads events, processed by two workers
NextLeads ==
    \/ InsertRow(DistinctRows)
    \/ Polling(Beat)
    \/ Processing

SpecLeads == InitLeads /\ [][NextLeads]_vars

\* the outbox and its pollers alone: all rows, overlapping polls, nothing
\* takes the dispatched messages from the broker
NextOutbox ==
    \/ InsertRow(Rows)
    \/ Polling(Pollers)

SpecOutbox == Init /\ [][NextOutbox]_vars

\* every started poll runs to its end, the beat schedule keeps starting polls
\* and a publish that can succeed eventually does
FairOutbox ==
    \A p \in Pollers :
        /\ WF_vars(PollSelect(p))
        /\ WF_vars(PollPublish(p))
        /\ WF_vars(PollMark(p))
        /\ WF_vars(PollDispatch(p))

SpecOutboxLive == SpecOutbox /\ FairOutbox

\* two events of one EventCount key, a row each, two workers, failing
\* transactions, no replay
NextCounts ==
    \/ InsertRow(DistinctRows)
    \/ Polling(Beat)
    \/ Processing
    \/ \E w \in Workers : Raise(w)

SpecCounts == InitCounts /\ [][NextCounts]_vars

\* the backfill is run, any number of times, on a day the pipeline is working
\* through two rows of one event_id, created the day before or today
NextBackfill ==
    \/ InsertRow(DuplicateRows)
    \/ Polling(Beat)
    \/ Processing
    \/ \E w \in Workers : BadPayload(w)
    \/ BackfillEventCounts
    \/ BackfillLeadFunnel

SpecBackfill == InitBackfill /\ [][NextBackfill]_vars

\* the hand-off from the poller to the processor: all rows, one poller whose
\* dispatch may break off, two workers; the only failing transactions are
\* those of the event whose payload cannot be read
NextHandoff ==
    \/ InsertRow(Rows)
    \/ Polling(Beat)
    \/ \E p \in Beat : PollDispatchFail(p)
    \/ Processing
    \/ \E w \in Workers : BadPayload(w)

SpecHandoff == Init /\ [][NextHandoff]_vars

\* polls run to their end as long as nothing raises, the beat keeps starting
\* polls, and the workers keep taking messages and running their tasks
FairHandoff ==
    /\ \A p \in Beat :
          /\ WF_vars(PollSelect(p))
          /\ WF_vars(PollPublish(p))
          /\ WF_vars(PollMark(p))
          /\ WF_vars(PollDispatch(p))
    /\ \A w \in Workers :
          /\ WF_vars(Take(w))
          /\ WF_vars(Check(w))
          /\ WF_vars(Count(w))
          /\ WF_vars(LeadRead(w))
          /\ WF_vars(LeadWrite(w))
          /\ WF_vars(Create(w))
          /\ WF_vars(BadPayload(w))

SpecHandoffLive == SpecHandoff /\ FairHandoff

\* ------------------------------------------------------------ properties
Running(w) == worker[w].pc \notin {"idle", "done"}

\* a FailedEvent of e has been replayed
Replayed(e) ==
    \E i \in 1..Len(failed) : failed[i].event_id = e /\ failed[i].resolved_at

FailedRows(e) == {i \in 1..Len(failed) : failed[i].event_id = e}

\* what one application of e does to an empty LeadFunnelMetric row
OnceApplied(e) == LeadApply(ZeroLead, EventTypeOf(e), PayloadOf(e))

\* C1: the effect of an event (its EventCount increment, its funnel counter)
\* is applied to the aggregate tables at most once, whatever polls, retries,
\* redeliveries and replays happen.
C1_AtMostOnce ==
    /\ \A e \in EventIds : eventCount[KeyOf(e)] <= 1
    /\ lead.won_leads <= 1

\* C2: a process call that finds the ProcessedEvent of an earlier successful call
\* returns the skipped outcome, there is exactly one ProcessedEvent row for the
\* event_id, and the call changes no EventCount, metric, ProcessedEvent or
\* FailedEvent row (and schedules nothing).
C2_SecondCallSkips ==
    [][\A w \in Workers :
          (/\ worker[w].pc = "check"
           /\ processed[worker[w].msg.event_id] > 0
           /\ worker'[w] # worker[w])
          => /\ worker'[w].pc = "done"
             /\ worker'[w].result = "skipped"
             /\ processed[worker[w].msg.event_id] = 1
             /\ UNCHANGED <<eventCount, leadExists, lead, processed, failed,
                            alerts, queue>>]_vars

C2_Witness ==
    \E w \in Workers :
        /\ worker[w].pc = "done"
        /\ worker[w].result = "skipped"
        /\ processed[worker[w].msg.event_id] = 1
        /\ eventCount[KeyOf(worker[w].msg.event_id)] = 1

\* C3: when the first two attempts of an event fail and the third succeeds, the
\* EventCount and the funnel metric hold the event's effect exactly once and
\* there is exactly one ProcessedEvent (as long as no replay has touched it).
C3_ExactlyOnceUnderRetry ==
    \A w \in Workers :
        LET e == worker[w].msg.event_id
        IN  (/\ worker[w].pc = "done"
             /\ worker[w].result = "success"
             /\ worker[w].msg.retries = 2
             /\ ~Replayed(e))
            => /\ eventCount[KeyOf(e)] = 1
               /\ processed[e] = 1
               /\ leadExists
               /\ lead = OnceApplied(e)

C3_Witness ==
    \E w \in Workers :
        /\ worker[w].pc = "done"
        /\ worker[w].result = "success"
        /\ worker[w].msg.retries = 2
        /\ worker[w].msg.retry_count = 2
        /\ ~Replayed(worker[w].msg.event_id)
        /\ faults = 2

\* C4: no outbox row is claimed by two poll passes: the batches of two running
\* pollers never share a row.
C4_ClaimExclusive ==
    \A p \in Pollers : \A q \in Pollers \ {p} :
        BatchIds(poller[p].events) \cap BatchIds(poller[q].events) = {}

\* C5: a FailedEvent is written only by the fourth failed attempt of an event
\* (three failed attempts before it), it is the only FailedEvent of the event,
\* its retry_count is MAX_RETRIES and no retry is scheduled with it.
C5_DeadLetterThreshold ==
    \A w \in Workers :
        (worker[w].pc = "done" /\ worker[w].result = "failed")
        => /\ worker[w].msg.retries = MAX_RETRIES
           /\ Cardinality(FailedRows(worker[w].msg.event_id)) = 1
           /\ \A i \in FailedRows(worker[w].msg.event_id) :
                 failed[i].retry_count = MAX_RETRIES

\* both duplicate rows are handed off and every invocation they started is over
Drained ==
    /\ \A r \in DuplicateRows : outbox[r].present /\ outbox[r].processed_at
    /\ \A p \in Pollers : poller[p].pc = "idle"
    /\ queue = EmptyBag
    /\ \A w \in Workers : ~Running(w)

\* C6: two outbox rows with the same event_id, processed in any interleaving on
\* two workers, leave at most one ProcessedEvent and a single increment of the
\* EventCount and of the funnel metric; when both are through and no statement
\* failed for another reason, exactly one ProcessedEvent exists.
C6_DuplicateRows ==
    ~Replayed("e1")
    => /\ processed["e1"] <= 1
       /\ eventCount[KeyOf("e1")] = processed["e1"]
       /\ lead = IF processed["e1"] = 1 THEN OnceApplied("e1") ELSE ZeroLead
       /\ (Drained /\ faults = 0) => processed["e1"] = 1

\* the loser of a race of the two duplicates: its INSERT hit the unique
\* constraint, it was retried and then skipped
C6_Witness ==
    /\ Drained
    /\ faults = 0
    /\ ~Replayed("e1")
    /\ processed["e1"] = 1
    /\ eventCount[KeyOf("e1")] = 1
    /\ \E w \in Workers :
          /\ worker[w].result = "skipped"
          /\ worker[w].msg.event_id = "e1"
          /\ worker[w].msg.retries = 1

\* C7: in every reachable state a ProcessedEvent of an event exists exactly when
\* its EventCount increment and metric mutations are committed.
C7_LedgerIffCommitted ==
    \A e \in EventIds : (processed[e] > 0) <=> (eventCount[KeyOf(e)] > 0)

\* C8: replay of an existing FailedEvent removes the ProcessedEvent of its
\* event_id, enqueues one process call for it with retry_count 0 and stamps
\* resolved_at and resolved_by on that FailedEvent, which is kept; a stamped
\* resolved_at is never cleared again, whatever the replayed processing does.
C8_Replay ==
    [][/\ \A fid \in 1..Len(failed) :
             Replay(fid)
             => LET e == failed[fid].event_id
                IN  /\ processed'[e] = 0
                    /\ CopiesIn(ReplayMsg(e), queue')
                          = CopiesIn(ReplayMsg(e), queue) + 1
                    /\ Len(failed') = Len(failed)
                    /\ failed'[fid].resolved_at
                    /\ failed'[fid].resolved_by = "manual_replay"
                    /\ failed'[fid].event_id = e
       /\ \A i \in 1..Len(failed) :
             failed[i].resolved_at
             => Len(failed') >= i /\ failed'[i].resolved_at]_vars

\* the replayed event ran out of retries a second time, the stamp is still there
C8_Witness ==
    \E i \in 1..Len(failed) :
        /\ failed[i].resolved_at
        /\ failed[i].resolved_by = "manual_replay"
        /\ \E w \in Workers :
              /\ worker[w].pc = "done"
              /\ worker[w].result = "error"
              /\ worker[w].msg.event_id = failed[i].event_id
              /\ worker[w].msg.retry_count = MAX_RETRIES
              /\ worker[w].msg.retries = MAX_RETRIES

\* C9: after a failed publish every row of the batch has processed_at and
\* published_at null, retry_count one higher and last_error set, the poll
\* returns 0 and hands nothing to the Processor.
C9_PublishFailure ==
    [][\A p \in Pollers :
          (poller[p].pc = "publish" /\ poller'[p].pc = "idle")
          => /\ poller'[p].ret = 0
             /\ queue' = queue
             /\ \A r \in BatchIds(poller[p].events) :
                   /\ ~outbox'[r].processed_at
                   /\ ~outbox'[r].published_at
                   /\ outbox'[r].retry_count = outbox[r].retry_count + 1
                   /\ outbox'[r].last_error]_vars

\* C10: once a ProcessedEvent of an event exists it is never removed.
C10_SuccessIsTerminal ==
    [][\A e \in EventIds : processed[e] > 0 => processed'[e] > 0]_vars

\* C11: publish failures do not use up the processing retries: whatever
\* retry_count the outbox row has reached, a FailedEvent is written only by
\* the attempt that follows MAX_RETRIES failed attempts (the MAX_RETRIES+1-th
\* failure), and every process invocation the poller starts has the whole
\* retry budget (retry_count 0).
C11_PublishFailuresNotEscalated ==
    /\ \A w \in Workers :
          (worker[w].pc = "done" /\ worker[w].result = "failed")
          => worker[w].msg.retries + 1 = MAX_RETRIES + 1
    /\ \A w \in Workers :
          (Running(w) /\ worker[w].msg.retries = 0) => worker[w].msg.retry_count = 0

C13_FailureAfterReplayRecorded ==
    [][\A w \in Workers :
          LET e == worker[w].msg.event_id
          IN  (/\ Running(w)
               /\ Replayed(e)
               /\ worker'[w].pc = "done"
               /\ worker'[w].result \notin {"success", "skipped", "retry"})
              => /\ worker'[w].result = "failed"
                 /\ \E i \in 1..Len(failed') :
                       /\ failed'[i].event_id = e
                       /\ ~failed'[i].resolved_at]_vars

\* the pending process_event messages of an event_id
Enqueued(q, e) ==
    BagCardinality([m \in {x \in BagToSet(q) : x.event_id = e} |-> q[m]])

\* the rows a poll can claim: present and processed_at null
Unprocessed == {r \in Rows : outbox[r].present /\ ~outbox[r].processed_at}

\* C14: a poll whose publish succeeded, or that runs without a queue, stamps
\* processed_at and published_at on every row of its batch, then enqueues
\* one process invocation per row of the batch, with the event_id of the row,
\* and returns the number of rows of the batch.
C14_PollSuccess ==
    [][\A p \in Pollers :
          LET B == BatchIds(poller[p].events)
          IN  /\ (poller[p].pc = "idle" /\ poller'[p].pc = "mark")
                 => ~sqsConfigured
              /\ (poller[p].pc = "mark" /\ poller'[p].pc # "mark")
                 => \A r \in B : /\ outbox'[r].processed_at
                                 /\ outbox'[r].published_at
              /\ (poller[p].pc = "dispatch" /\ poller'[p].pc # "dispatch")
                 => /\ \A r \in B : /\ outbox[r].processed_at
                                    /\ outbox[r].published_at
                    /\ \A e \in EventIds :
                          Enqueued(queue', e)
                            = Enqueued(queue, e)
                                + Cardinality({r \in B : EventOfRow(r) = e})
                    /\ poller'[p].pc = "idle"
                    /\ poller'[p].ret = Cardinality(B)
                    /\ Cardinality(B) = Len(poller[p].events)]_vars

\* a poll of both duplicate rows has returned 2 and left two invocations
C14_Witness ==
    \E p \in Pollers :
        /\ poller[p].pc = "idle"
        /\ poller[p].ret = 2
        /\ \A r \in DuplicateRows : outbox[r].processed_at /\ outbox[r].published_at
        /\ ~outbox[3].present
        /\ Enqueued(queue, "e1") = 2
        /\ pubFailures = 0

\* C15: the batch a poll selects consists of unprocessed rows, as many as
\* there are up to batch_size, and every unprocessed row left out comes after
\* every selected row in the order (retry_count, created_at): no row with a
\* lower retry_count is left out in favour of one with a higher retry_count.
C15_SelectionOrder ==
    [][\A p \in Pollers :
          (poller[p].pc = "idle" /\ poller'[p] # poller[p])
          => LET B == BatchIds(poller'[p].events)
             IN  /\ B \subseteq Unprocessed
                 /\ Len(poller'[p].events) = Cardinality(B)
                 /\ Cardinality(B) = IF Cardinality(Unprocessed) < BatchSize
                                     THEN Cardinality(Unprocessed) ELSE BatchSize
                 /\ \A b \in B : \A r \in Unprocessed \ B :
                       \/ outbox[b].retry_count < outbox[r].retry_count
                       \/ /\ outbox[b].retry_count = outbox[r].retry_count
                          /\ b < r]_vars

\* the newest row is selected before an older row whose publish has failed
C15_Witness ==
    \E p \in Pollers :
        /\ poller[p].pc # "idle"
        /\ 3 \in BatchIds(poller[p].events)
        /\ \E r \in Unprocessed \ BatchIds(poller[p].events) :
              /\ r < 3
              /\ outbox[r].retry_count > outbox[3].retry_count

C17_EmptyPoll ==
    [][\A p \in Pollers :
          (poller[p].pc = "idle" /\ Unprocessed = {} /\ poller'[p] # poller[p])
          => /\ poller'[p].pc = "idle"
             /\ poller'[p].ret = 0
             /\ UNCHANGED <<outbox, sqs, queue>>]_vars

\* a poll after everything was handed off has returned 0
C17_Witness ==
    \E p \in Pollers :
        /\ poller[p].pc = "idle"
        /\ poller[p].ret = 0
        /\ pubFailures = 0
        /\ Unprocessed = {}
        /\ \E r \in Rows : outbox[r].processed_at

\* C18: a replay whose failed_event_id matches no FailedEvent returns the
\* not-found outcome and deletes no ProcessedEvent, enqueues nothing and
\* changes no FailedEvent (nor anything else).
C18_ReplayNotFound ==
    [][\A fid \in 0..(Len(failed) + 1) :
          (fid \notin 1..Len(failed) /\ Replay(fid))
          => /\ replayRet' = "error"
             /\ UNCHANGED <<processed, queue, failed, eventCount, leadExists,
                            lead, outbox, worker, archive>>]_vars

\* a replay missed although a FailedEvent waits for its replay
C18_Witness ==
    /\ replayRet = "error"
    /\ replays = 1
    /\ Len(failed) = 1
    /\ ~failed[1].resolved_at
    /\ processed[failed[1].event_id] = 0

\* C19: the archive object of an event is written only after the transaction
\* of the event has committed: whenever the object exists, the ProcessedEvent
\* of the event is committed.
C19_ArchiveAfterCommit ==
    \A e \in EventIds : archive[e] => processed[e] > 0

\* C20: with a queue configured a poll sends every row of its batch to the
\* queue and enqueues no process invocation itself; only a poll without a
\* queue enqueues process invocations.
C20_QueueModeNoDispatch ==
    [][\A p \in Pollers :
          /\ (poller[p].pc = "publish" /\ poller'[p].pc = "mark")
             => \A r \in BatchIds(poller[p].events) : sqs'[r] = sqs[r] + 1
          /\ (poller[p].pc # "idle" /\ poller'[p].pc = "idle" /\ sqsConfigured)
             => queue' = queue]_vars

\* C21: when two distinct leads events are processed concurrently and both
\* commit, today's LeadFunnelMetric holds both: its counters and sums are what
\* applying the two events one after the other to the row of before gives.
C21_NoLostUpdate ==
    (processed["e1"] = 1 /\ processed["e2"] = 1)
    => lead = LeadApply(LeadApply(SeedLead, EventTypeOf("e1"), PayloadOf("e1")),
                        EventTypeOf("e2"), PayloadOf("e2"))

\* C22: over any sequence of polls, also polls whose publish loop fails after
\* part of the batch, no outbox row is sent to the queue more than once.
C22_SentOnce ==
    \A r \in Rows : sqs[r] <= 1

\* C23: every process invocation ends in success, skipped, dead-lettered or a
\* scheduled retry, so a chain ends in one of the first three; an invocation
\* is at most the MAX_RETRIES+1-th attempt of its chain and carries a
\* retry_count of at most MAX_RETRIES; a retry carries the retry_count plus
\* one; a dead-lettered invocation schedules nothing.
C23_RetryChainTerminates ==
    [][\A w \in Workers :
          LET m == worker[w].msg
          IN  (Running(w) /\ worker'[w].pc = "done")
              => /\ worker'[w].result \in {"success", "skipped", "failed", "retry"}
                 /\ m.retries + 1 <= MAX_RETRIES + 1
                 /\ m.retry_count <= MAX_RETRIES
                 /\ worker'[w].result = "retry"
                    => \E d \in {60, 300, 900} :
                          queue' = queue (+) SetToBag({[event_id |-> m.event_id,
                                         retry_count |-> m.retry_count + 1,
                                         retries |-> m.retries + 1,
                                         countdown |-> d]})
                 /\ worker'[w].result = "failed" => queue' = queue]_vars

\* C24: a failed attempt with retry_count k < MAX_RETRIES schedules exactly one
\* invocation of the same event with retry_count k + 1 after 60 s for k = 0,
\* 300 s for k = 1 and 900 s for k = 2; the delay computed for a k at or
\* beyond the length of the schedule is 900 s.
C24_BackoffSchedule ==
    [][/\ \A w \in Workers :
             LET m == worker[w].msg
             IN  (/\ Running(w)
                  /\ worker'[w].pc = "done"
                  /\ worker'[w].result \notin {"success", "skipped"}
                  /\ m.retry_count < MAX_RETRIES)
                 => /\ worker'[w].result = "retry"
                    /\ queue' = queue (+) SetToBag({[event_id |-> m.event_id,
                                    retry_count |-> m.retry_count + 1,
                                    retries |-> m.retries + 1,
                                    countdown |-> IF m.retry_count = 0 THEN 60
                                                  ELSE IF m.retry_count = 1 THEN 300
                                                  ELSE 900]})
                    /\ BagCardinality(queue') = BagCardinality(queue) + 1
       /\ \A k \in Len(RETRY_BACKOFF_SECONDS)..(2 * MAX_RETRIES) :
             Countdown(k) = 900]_vars

\* the third retry of a chain was scheduled after 900 s and is running
C24_Witness ==
    \E w \in Workers :
        /\ Running(w)
        /\ worker[w].msg.retry_count = 3
        /\ worker[w].msg.retries = 3
        /\ worker[w].msg.countdown = 900

\* C25: an attempt that fails with no retry left inserts the FailedEvent of
\* the event (with the retry_count of the attempt), invokes the alert hook
\* once and returns the dead-lettered outcome; no other outcome of an attempt
\* (success, skipped, retry scheduled) invokes the alert hook.
C25_DeadLetterStep ==
    [][\A w \in Workers :
          LET m == worker[w].msg
          IN  (Running(w) /\ worker'[w].pc = "done")
              => /\ worker'[w].result \notin {"success", "skipped", "retry"}
                    => /\ worker'[w].result = "failed"
                       /\ Len(failed') = Len(failed) + 1
                       /\ failed'[Len(failed')].event_id = m.event_id
                       /\ failed'[Len(failed')].retry_count = m.retry_count
                       /\ alerts'[m.event_id] = alerts[m.event_id] + 1
                 /\ worker'[w].result \in {"success", "skipped", "retry"}
                    => alerts' = alerts]_vars

\* the five funnel counters
FunnelCounters ==
    {"new_leads", "contacted_leads", "qualified_leads", "won_leads", "lost_leads"}

\* the funnel counter a lead_status names
CounterOf(lead_status) ==
    IF lead_status = "new" THEN "new_leads"
    ELSE IF lead_status = "contacted" THEN "contacted_leads"
    ELSE IF lead_status = "qualified" THEN "qualified_leads"
    ELSE IF lead_status = "won" THEN "won_leads"
    ELSE IF lead_status = "lost" THEN "lost_leads"
    ELSE "none"

\* the step by which the attempt of w ends in success
Succeeds(w) ==
    /\ Running(w)
    /\ worker'[w].pc = "done"
    /\ worker'[w].result = "success"

\* C26: a successfully processed leads event of an insert- or update-shaped
\* event_type raises exactly one of the five funnel counters of today's row
\* by 1 and leaves the other four as they were.
C26_FunnelCounters ==
    [][\A w \in Workers :
          LET e == worker[w].msg.event_id
          IN  (/\ Succeeds(w)
               /\ AggregateTypeOf(e) = "leads"
               /\ InsertOrUpdateShaped(EventTypeOf(e)))
              => /\ leadExists'
                 /\ \E c \in FunnelCounters :
                       /\ lead'[c] = lead[c] + 1
                       /\ \A d \in FunnelCounters \ {c} : lead'[d] = lead[d]]_vars

\* C27: a successfully processed leads event adds its estimated_value (0 when
\* it has none) to today's total_estimated_value, adds it to won_value
\* exactly when lead_status is won and to lost_value exactly when it is lost.
C27_ValueSums ==
    [][\A w \in Workers :
          LET e == worker[w].msg.event_id
              v == EstimatedValue(PayloadOf(e))
              status == Get(PayloadOf(e), "lead_status", "new")
          IN  (Succeeds(w) /\ AggregateTypeOf(e) = "leads")
              => /\ leadExists'
                 /\ lead'.total_estimated_value = lead.total_estimated_value + v
                 /\ lead'.won_value
                      = lead.won_value + (IF status = "won" THEN v ELSE 0)
                 /\ lead'.lost_value
                      = lead.lost_value + (IF status = "lost" THEN v ELSE 0)]_vars

\* C28: a projects event with an account_id and a non-zero contract_value is
\* processed successfully and leaves the RevenueMetric row of (month,
\* account_id) in place with contracted_value raised by contract_value and
\* projects_count raised by 1, whether the row was there or not; without one
\* of the two fields, or with the value zero, RevenueMetric does not change.
C28_ProjectsUpsert ==
    [][\A w \in Workers :
          LET e == worker[w].msg.event_id
          IN  (/\ Running(w)
               /\ worker'[w].pc = "done"
               /\ worker'[w].result # "skipped"
               /\ AggregateTypeOf(e) = "projects")
              => IF AccountAndValue(PayloadOf(e))
                 THEN /\ worker'[w].result = "success"
                      /\ revExists'
                      /\ revenue'.contracted_value
                           = revenue.contracted_value + ContractValue(PayloadOf(e))
                      /\ revenue'.projects_count = revenue.projects_count + 1
                 ELSE UNCHANGED <<revExists, revenue>>]_vars

\* events that no handler aggregates
NoOpAggregate(e) == AggregateTypeOf(e) \notin {"leads", "projects"}

\* C29: an event whose aggregate_type is accounts, activities or unknown is
\* processed successfully at the first attempt and changes only the EventCount
\* of its (event_type, aggregate_type), by 1, and the ledger: the funnel and
\* revenue rows stay as they are and no FailedEvent is written.
C29_NoOpAggregates ==
    [][\A w \in Workers :
          LET e == worker[w].msg.event_id
          IN  (/\ Running(w)
               /\ worker'[w].pc = "done"
               /\ worker'[w].result # "skipped"
               /\ NoOpAggregate(e))
              => /\ worker'[w].result = "success"
                 /\ eventCount' = [eventCount EXCEPT ![KeyOf(e)] = @ + 1]
                 /\ processed' = [processed EXCEPT ![e] = 1]
                 /\ UNCHANGED <<leadExists, lead, revExists, revenue, failed,
                                alerts, queue>>]_vars

\* an accounts, activities or contacts event went through with the funnel row
\* of the day in place
C29_Witness ==
    \E w \in Workers :
        /\ worker[w].pc = "done"
        /\ worker[w].result = "success"
        /\ NoOpAggregate(worker[w].msg.event_id)
        /\ eventCount[KeyOf(worker[w].msg.event_id)] = 1
        /\ processed[worker[w].msg.event_id] = 1
        /\ leadExists
        /\ lead = SeedLead
        /\ failed = <<>>

\* C30: in every reachable state an outbox row with published_at set has been
\* sent to the downstream queue by a publish that succeeded.
C30_PublishedWasSent ==
    \A r \in Rows : outbox[r].published_at => sqs[r] >= 1

\* an unresolved FailedEvent of e exists
DeadLettered(e) ==
    \E i \in 1..Len(failed) : failed[i].event_id = e /\ ~failed[i].resolved_at

\* C31: in every reachable state no event_id has both a ProcessedEvent row and
\* an unresolved FailedEvent row, whatever duplicate deliveries, concurrent
\* workers, retries and replays happen.
C31_SuccessExcludesDeadLetter ==
    \A e \in EventIds : ~(processed[e] > 0 /\ DeadLettered(e))

\* the event_id has reached a terminal outcome
Terminal(e) == processed[e] > 0 \/ HasFailedRow(e)

\* C32: every outbox row stamped processed_at eventually has a terminal
\* outcome for its event_id (a ProcessedEvent or a FailedEvent exists), also
\* when the poll breaks off between stamping the batch and dispatching it.
C32_HandedOffIsFinished ==
    \A r \in Rows : outbox[r].processed_at ~> Terminal(EventOfRow(r))

\* the events of EventCount key k that have a ProcessedEvent row
ProcessedOfKey(k) == {e \in EventIds : KeyOf(e) = k /\ processed[e] > 0}

\* C33: with distinct event_ids of one (date, event_type, aggregate_type)
\* processed concurrently and no replay, the count of the EventCount row
\* equals the number of those events that have a ProcessedEvent row.
C33_CountsNotLost ==
    \A k \in Keys : eventCount[k] = Cardinality(ProcessedOfKey(k))

\* both events went through, each on its own worker, after a transaction that
\* had counted was rolled back
C33_Witness ==
    /\ KeyOf("e1") = KeyOf("e2")
    /\ processed["e1"] = 1
    /\ processed["e2"] = 1
    /\ eventCount[KeyOf("e1")] = 2
    /\ faults > 0
    /\ \E w \in Workers : \E v \in Workers \ {w} :
          /\ worker[w].result = "success" /\ worker[w].msg.event_id = "e1"
          /\ worker[v].result = "success" /\ worker[v].msg.event_id = "e2"

RECURSIVE SumOf(_, _)
SumOf(f, S) ==
    IF S = {} THEN 0
    ELSE LET x == CHOOSE y \in S : TRUE IN f[x] + SumOf(f, S \ {x})

\* verify_data, line 140: sum(ec.count for ec in EventCount.objects.all())
TotalAnalytics == SumOf(eventCount, Keys) + SumOf(yesterday.eventCount, Keys)

\* verify_data, line 136: SELECT COUNT(*) FROM event_outbox
TotalOutbox == Cardinality({r \in Rows : outbox[r].present})

\* C34: after backfill_event_counts has run, from any EventCount state the
\* processor has produced, the sum of count over all EventCount rows equals
\* the number of rows of event_outbox (verify_data reports MATCH).
C34_BackfillMatches ==
    [][BackfillEventCounts => TotalAnalytics' = TotalOutbox']_vars

\* the number the estimated_value of a row stands for (0 without one)
RowValue(r) ==
    LET v == Get(PayloadOf(EventOfRow(r)), "estimated_value", Null)
    IN  IF v.tag \in {"num", "numstr"} THEN v.n ELSE 0

RowValues(S) == SumOf([r \in Rows |-> RowValue(r)], S)

\* the leads rows of day d with the given lead_status
StatusRowsOn(d, status) ==
    {r \in LeadRowsOn(d) :
        Get(PayloadOf(EventOfRow(r)), "lead_status", "new") = status}

\* the LeadFunnelMetric row of day d
FunnelOf(d) == IF d = "today" THEN lead ELSE yesterday.lead

\* C35: after backfill_lead_funnel has run, the LeadFunnelMetric of every date
\* with leads rows holds in total_estimated_value the sum of estimated_value
\* over all leads rows of event_outbox created on that date, and in won_value
\* and lost_value the sums over the won and the lost rows, also when several
\* rows have the same status and value.
C35_BackfillFullSums ==
    [][BackfillLeadFunnel
       => \A d \in Days :
             LeadRowsOn(d) # {}
             => /\ FunnelOf(d)'.total_estimated_value = RowValues(LeadRowsOn(d))
                /\ FunnelOf(d)'.won_value = RowValues(StatusRowsOn(d, "won"))
                /\ FunnelOf(d)'.lost_value = RowValues(StatusRowsOn(d, "lost"))]_vars

====
